---- MODULE Spec2Model ----
(***************************************************************************)
(* A model of po, a Pushover notification client (src/src/lib.rs,          *)
(* src/src/config.rs, src/src/bin/po.rs).                                  *)
(*                                                                         *)
(* Short strings (tokens, user keys, the text of the configuration file)   *)
(* are sequences of characters; each character is a one-element TLA+       *)
(* string, except EAcute, which stands for U+00E9 (two bytes in UTF-8).    *)
(* Message bodies are sequences of runs [c |-> character, n |-> count]:    *)
(* the string made of n copies of c for each run in turn.  Both carry the  *)
(* byte length that Rust's str::len and str slicing work with.             *)
(***************************************************************************)
EXTENDS Integers, Sequences, FiniteSets, TLC

VARIABLES
    file,        \* config file at the path: Absent, or Text(its characters)
    fileBefore,  \* the file as it was when the last operation started
    written,     \* history: the pair of the last write that returned Ok(()),
                 \* and whether the file is intact since (no later write
                 \* failed after File::create truncated it); or Nothing
    op,          \* the last operation called
    args,        \* its arguments
    result,      \* what it returned, or Panic
    notification,\* push: the key/value pairs built for the request
    uploads,     \* push: the payloads posted to the paste host, in order
    posted,      \* push: whether the request was posted to the provider
    printed      \* push: whether the request body was printed (Debug)

vars == <<file, fileBefore, written, op, args, result,
          notification, uploads, posted, printed>>

Absent == [exists |-> FALSE, text |-> <<>>]
Text(t) == [exists |-> TRUE, text |-> t]
Nothing == [any |-> FALSE, pair |-> <<>>, intact |-> FALSE]
Panic == [kind |-> "panic"]
Ok(v) == [kind |-> "Ok", value |-> v]
Err(k, v) == [kind |-> k, value |-> v]

\* ------------------------------------------------------------ characters

EAcute == "U+00E9"
Quote == "\""
Backslash == "\\"

\* Unicode code point of the characters the model uses.
CodePoint(c) ==
    CASE c = "a" -> 97 [] c = "Z" -> 90 [] c = "7" -> 55 [] c = "-" -> 45
      [] c = Quote -> 34 [] c = Backslash -> 92 [] c = EAcute -> 233
      [] c = "{" -> 123 [] c = "}" -> 125 [] c = ":" -> 58 [] c = "," -> 44
      [] c = "t" -> 116 [] c = "o" -> 111 [] c = "k" -> 107 [] c = "e" -> 101
      [] c = "n" -> 110 [] c = "u" -> 117 [] c = "s" -> 115 [] c = "r" -> 114
      [] c = "h" -> 104

\* Bytes of the character's UTF-8 encoding (the model has no code point
\* above U+07FF).
Utf8Width(c) == IF CodePoint(c) < 128 THEN 1 ELSE 2

Fill(c, n) == [i \in 1..n |-> c]

\* str::len of a character sequence: its length in bytes, one for each
\* character and one more for each two-byte character.
len(s) == Len(s) + Cardinality({i \in 1..Len(s) : Utf8Width(s[i]) = 2})

\* ---------------------------------------------------------- valid_token

TokenLen == 30

\* Regex [A-Za-z0-9]: one character of the class.
ClassMatch(c) ==
    \/ CodePoint(c) \in 65..90
    \/ CodePoint(c) \in 97..122
    \/ CodePoint(c) \in 48..57

\* Regex::is_match is an unanchored search: the first position from i on
\* where the pattern matches, if any.
RECURSIVE is_match(_, _)
is_match(s, i) ==
    IF i > Len(s) THEN FALSE
    ELSE IF ClassMatch(s[i]) THEN TRUE
    ELSE is_match(s, i + 1)

valid_token_CharCount(token) ==
    Len(token) = TokenLen /\ is_match(token, 1)

valid_token(token) ==
    len(token) = TokenLen /\ is_match(token, 1)

\* ------------------------------------------------- json::encode / decode

TokenKey == <<"t", "o", "k", "e", "n">>
UserKey == <<"u", "s", "e", "r">>

\* rustc_serialize's string escaping, for the characters of the model:
\* a quote and a backslash get a backslash before them.
RECURSIVE escape_from(_, _, _)
escape_from(s, i, out) ==
    IF i > Len(s) THEN out
    ELSE escape_from(s, i + 1,
                     IF s[i] \in {Quote, Backslash}
                     THEN out \o <<Backslash, s[i]>>
                     ELSE Append(out, s[i]))

escape_str_None(s) == s

escape_str(s) == escape_from(s, 1, <<>>)

JsonString(s) == <<Quote>> \o escape_str(s) \o <<Quote>>

\* json::encode(&Config {token, user}): the fields in declaration order.
encode(config) ==
    <<"{">> \o JsonString(TokenKey) \o <<":">> \o JsonString(config.token)
    \o <<",">> \o JsonString(UserKey) \o <<":">> \o JsonString(config.user)
    \o <<"}">>

\* The parser, reading a string literal whose opening quote is before i:
\* [ok, value, next].  The only escapes in the model's texts are \" and \\.
RECURSIVE parse_str(_, _, _)
parse_str(text, i, acc) ==
    IF i > Len(text) THEN [ok |-> FALSE]
    ELSE IF text[i] = Quote THEN [ok |-> TRUE, value |-> acc, next |-> i + 1]
    ELSE IF text[i] = Backslash
         THEN IF i + 1 <= Len(text) /\ text[i + 1] \in {Quote, Backslash}
              THEN parse_str(text, i + 2, Append(acc, text[i + 1]))
              ELSE [ok |-> FALSE]
    ELSE parse_str(text, i + 1, Append(acc, text[i]))

\* The members "key":"value" of an object from position i (after "{" or
\* ","), up to the closing brace, which must end the text.
RECURSIVE parse_object(_, _, _)
parse_object(text, i, members) ==
    IF i > Len(text) \/ text[i] # Quote THEN [ok |-> FALSE]
    ELSE LET key == parse_str(text, i + 1, <<>>) IN
         IF ~key.ok THEN [ok |-> FALSE]
         ELSE IF key.next + 1 > Len(text) \/ text[key.next] # ":"
                 \/ text[key.next + 1] # Quote
              THEN [ok |-> FALSE]
         ELSE LET val == parse_str(text, key.next + 2, <<>>) IN
              IF ~val.ok \/ val.next > Len(text) THEN [ok |-> FALSE]
              ELSE LET all == Append(members, <<key.value, val.value>>) IN
                   IF text[val.next] = ","
                   THEN parse_object(text, val.next + 1, all)
                   ELSE IF text[val.next] = "}" /\ val.next = Len(text)
                        THEN [ok |-> TRUE, members |-> all]
                        ELSE [ok |-> FALSE]

Field(members, key) ==
    LET at == {i \in 1..Len(members) : members[i][1] = key}
    IN  IF at = {} THEN [ok |-> FALSE]
        ELSE [ok |-> TRUE,
              value |-> members[CHOOSE i \in at : \A j \in at : j <= i][2]]

\* json::decode::<Config>(text): [ok |-> FALSE] is its Err.
decode(text) ==
    IF Len(text) < 2 \/ text[1] # "{" THEN [ok |-> FALSE]
    ELSE LET obj == parse_object(text, 2, <<>>) IN
         IF ~obj.ok THEN [ok |-> FALSE]
         ELSE LET t == Field(obj.members, TokenKey)
                  u == Field(obj.members, UserKey)
              IN  IF ~t.ok \/ ~u.ok THEN [ok |-> FALSE]
                  ELSE [ok |-> TRUE,
                        value |-> [token |-> t.value, user |-> u.value]]

\* ------------------------------------------------------- config::write

\* What the file system does to a write: File::create fails, or it
\* truncates the file and write_all writes everything, nothing or half.
WriteIo == {"ok", "create fails", "write fails at once", "write fails midway"}

\* The text write_all leaves behind when it fails.
PartialText(text, io) ==
    IF io = "write fails midway" THEN SubSeq(text, 1, Len(text) \div 2) ELSE <<>>

\* A faulty variant of write, for comparison: the file is created
\* (truncated) before the arguments are validated.
write_CreateFirst(token, user, f, io) ==
    IF io = "create fails"
    THEN [result |-> Err("FileError", "create"), file |-> f]
    ELSE IF ~valid_token(token)
    THEN [result |-> Err("InvalidApiToken", token), file |-> Text(<<>>)]
    ELSE IF ~valid_token(user)
    THEN [result |-> Err("InvalidUserKey", user), file |-> Text(<<>>)]
    ELSE LET config_json == encode([token |-> token, user |-> user]) IN
         IF io = "ok"
         THEN [result |-> Ok(<<>>), file |-> Text(config_json)]
         ELSE [result |-> Err("FileError", "write_all"),
               file |-> Text(PartialText(config_json, io))]

\* config::write(token, user, path) on a path holding f: what it returns
\* and what the path holds afterwards.
write(token, user, f, io) ==
    IF ~valid_token(token)
    THEN [result |-> Err("InvalidApiToken", token), file |-> f]
    ELSE IF ~valid_token(user)
    THEN [result |-> Err("InvalidUserKey", user), file |-> f]
    ELSE LET config_json == encode([token |-> token, user |-> user]) IN
         IF io = "create fails"
         THEN [result |-> Err("FileError", "create"), file |-> f]
         ELSE IF io = "ok"
         THEN [result |-> Ok(<<>>), file |-> Text(config_json)]
         ELSE [result |-> Err("FileError", "write_all"),
               file |-> Text(PartialText(config_json, io))]

\* -------------------------------------------------------- config::read

\* What the file system does to a read of an existing file: File::open
\* fails (permissions, ...), read_to_string fails, or both succeed.
ReadIo == {"ok", "open fails", "read fails"}

\* config::read(path) on a path holding f.
read(f, io) ==
    IF f = Absent \/ io = "open fails"
    THEN Err("NoConfig", <<>>)
    ELSE IF io = "read fails"
    THEN Err("FileError", "read_to_string")
    ELSE LET config == decode(f.text) IN
         IF config.ok
         THEN Ok(<<config.value.token, config.value.user>>)
         ELSE Panic

\* ------------------------------------------------- the credential store

\* The strings offered as token and user key.
Tokens ==
    { Fill("-", TokenLen - 1) \o <<"Z">>,
      <<Quote>> \o Fill("7", TokenLen - 2) \o <<Backslash>>,
      <<EAcute>> \o Fill("a", TokenLen - 2),
      Fill("a", TokenLen - 1),
      Fill("-", TokenLen),
      <<EAcute>> \o Fill("a", TokenLen - 1),
      <<"s", "h", "o", "r", "t">> }

Users ==
    { Fill("a", TokenLen),
      <<Quote>> \o Fill("7", TokenLen - 2) \o <<Backslash>>,
      Fill("a", TokenLen - 1) }

\* A file somebody else left at the path: JSON, but not a Config.
Garbage == <<"{", Quote, "u", Quote, ":", Quote, "a", Quote, "}">>

InitConfig ==
    /\ file \in {Absent, Text(Garbage)}
    /\ fileBefore = file
    /\ written = Nothing
    /\ op = "none"
    /\ args = [io |-> "none"]
    /\ result = [kind |-> "none"]
    /\ notification = <<>>
    /\ uploads = <<>>
    /\ posted = FALSE
    /\ printed = FALSE

\* The file system is consulted, and so has a say, only when both
\* arguments are valid.
CallWrite ==
    \E token \in Tokens, user \in Users :
    \E io \in IF valid_token(token) /\ valid_token(user) THEN WriteIo ELSE {"ok"} :
        LET w == write(token, user, file, io) IN
        /\ op' = "write"
        /\ args' = [token |-> token, user |-> user, io |-> io]
        /\ result' = w.result
        /\ fileBefore' = file
        /\ file' = w.file
        /\ UNCHANGED <<notification, uploads, posted, printed>>
        /\ written' =
               IF w.result.kind = "Ok"
               THEN [any |-> TRUE, pair |-> <<token, user>>, intact |-> TRUE]
               ELSE IF written.any /\ w.result.kind = "FileError"
                       /\ io # "create fails"
               THEN [written EXCEPT !.intact = FALSE]
               ELSE written

CallRead ==
    \E io \in ReadIo :
        /\ op' = "read"
        /\ args' = [io |-> io]
        /\ result' = read(file, io)
        /\ fileBefore' = file
        /\ UNCHANGED <<file, written, notification, uploads, posted, printed>>

NextConfig == CallWrite \/ CallRead

SpecConfig == InitConfig /\ [][NextConfig]_vars

\* ------------------------------------------------------ message bodies

Run(c, n) == [c |-> c, n |-> n]

\* str::len of a message body: its length in bytes.
RECURSIVE message_len(_)
message_len(m) ==
    IF m = <<>> THEN 0
    ELSE Head(m).n * Utf8Width(Head(m).c) + message_len(Tail(m))

\* str::is_char_boundary: byte offset k is the start of a character of m,
\* or its end.
RECURSIVE is_char_boundary(_, _)
is_char_boundary(m, k) ==
    IF k = 0 THEN TRUE
    ELSE IF m = <<>> THEN FALSE
    ELSE LET bytes == Head(m).n * Utf8Width(Head(m).c) IN
         IF bytes <= k THEN is_char_boundary(Tail(m), k - bytes)
         ELSE k % Utf8Width(Head(m).c) = 0

\* The first k bytes of m, k a character boundary of m.
RECURSIVE bytes_to(_, _)
bytes_to(m, k) ==
    IF k = 0 \/ m = <<>> THEN <<>>
    ELSE LET bytes == Head(m).n * Utf8Width(Head(m).c) IN
         IF bytes <= k THEN <<Head(m)>> \o bytes_to(Tail(m), k - bytes)
         ELSE <<Run(Head(m).c, k \div Utf8Width(Head(m).c))>>

\* &message[0..k]: slicing panics unless k is a character boundary.
slice_to(m, k) ==
    IF is_char_boundary(m, k) THEN Ok(bytes_to(m, k)) ELSE Panic

MessageLimit == 1024

\* The wire message of push: Ok(msg), or Panic.
truncate(message) ==
    IF message_len(message) > MessageLimit
    THEN slice_to(message, MessageLimit)
    ELSE Ok(message)

\* ---------------------------------------------------------- HTTP replies

\* A reply: the transfer failed (exec |-> "Err", with curl's code), or it
\* brought a status code and a body.  A body is valid UTF-8 or not, JSON
\* or not, and as JSON an object with the given fields.
Transfer(code) == [exec |-> "Err", code |-> code]
Reply(code, body) == [exec |-> "Ok", code |-> code, body |-> body]
Json(fields) == [utf8 |-> TRUE, json |-> TRUE, fields |-> fields]
NotJson == [utf8 |-> TRUE, json |-> FALSE, fields |-> <<>>]
NotUtf8 == [utf8 |-> FALSE, json |-> FALSE, fields |-> <<>>]

\* std::str::from_utf8(body).unwrap() and json::decode(body).unwrap()
\* into a struct with the given fields: Ok(fields), or Panic.
decode_body(body, fields) ==
    IF body.utf8 /\ body.json /\ fields \subseteq DOMAIN body.fields
    THEN Ok(body.fields)
    ELSE Panic

\* ------------------------------------------------------------------ gist

GistError == [kind |-> "Err",
              value |-> <<0, "Generic: Couldn't post to Gist.">>]

\* gist(message, title) with the paste host answering net: Ok(url),
\* GistError, or Panic.
gist(message, title, net) ==
    IF net.exec = "Ok" /\ (net.code = 201 \/ net.code = 200)
    THEN LET response == decode_body(net.body, {"html_url"}) IN
         IF response = Panic THEN Panic
         ELSE Ok(response.value.html_url)
    ELSE GistError

\* ------------------------------------------------------------------ push

Priority(p) == [kind |-> "Priority", value |-> p]
Title(t) == [kind |-> "Title", value |-> t]
Device(d) == [kind |-> "Device", value |-> d]
Sound(x) == [kind |-> "Sound", value |-> x]
URL(u) == [kind |-> "URL", value |-> u]
URLTitle(ut) == [kind |-> "URLTitle", value |-> ut]
Gist == [kind |-> "Gist", value |-> 0]
Debug == [kind |-> "Debug", value |-> 0]

Digit(d) == <<"0", "1", "2", "3", "4", "5", "6", "7", "8", "9">>[d + 1]

RECURSIVE digits(_)
digits(n) ==
    IF n < 10 THEN <<Digit(n)>>
    ELSE Append(digits(n \div 10), Digit(n % 10))

\* i8::to_string: the decimal digits, after a minus sign if negative.
to_string(p) == IF p < 0 THEN <<"-">> \o digits(-p) ELSE digits(p)

GistUrlTitle == "Full Output (GitHub Gist)"

priority_fields_OmitDefault(p) ==
    IF p = 0 THEN <<>> ELSE << <<"priority", to_string(p)>> >>

\* The fields a Priority(p) parameter adds.
priority_fields(p) == << <<"priority", to_string(p)>> >>

gist_payload_DefaultTitle(message, msg, title) ==
    [title |-> "po", content |-> message]

\* The file a Gist parameter uploads: gist(message, title.clone()).
gist_payload(message, msg, title) ==
    [title |-> title, content |-> message]

\* The body of the loop over the parameters: st is title, debug, the
\* notification and the uploads so far, and whether gist has panicked.
apply_parameter(st, parameter, message, msg, net) ==
    CASE parameter.kind = "Priority" ->
            [st EXCEPT !.notification = @ \o priority_fields(parameter.value)]
      [] parameter.kind = "Title" ->
            [st EXCEPT !.notification = Append(@, <<"title", parameter.value>>),
                       !.title = parameter.value]
      [] parameter.kind = "Device" ->
            [st EXCEPT !.notification = Append(@, <<"device", parameter.value>>)]
      [] parameter.kind = "Sound" ->
            [st EXCEPT !.notification = Append(@, <<"sound", parameter.value>>)]
      [] parameter.kind = "URL" ->
            [st EXCEPT !.notification = Append(@, <<"url", parameter.value>>)]
      [] parameter.kind = "URLTitle" ->
            [st EXCEPT !.notification = Append(@, <<"url_title", parameter.value>>)]
      [] parameter.kind = "Gist" ->
            LET payload == gist_payload(message, msg, st.title)
                g == gist(payload.content, payload.title, net)
                up == [st EXCEPT !.uploads = Append(@, payload)]
            IN  IF g = Panic THEN [up EXCEPT !.panic = TRUE]
                ELSE IF g.kind = "Ok"
                THEN [up EXCEPT !.notification =
                         @ \o << <<"url", g.value>>,
                                 <<"url_title", GistUrlTitle>> >>]
                ELSE up
      [] parameter.kind = "Debug" ->
            [st EXCEPT !.debug = TRUE]

\* The loop over the parameters from the i-th on; nets[i] is the paste
\* host's answer to the upload of a Gist at i.
RECURSIVE apply_parameters(_, _, _, _, _, _)
apply_parameters(st, para, i, message, msg, nets) ==
    IF i > Len(para) \/ st.panic THEN st
    ELSE apply_parameters(
             apply_parameter(st, para[i], message, msg,
                             IF i \in DOMAIN nets THEN nets[i] ELSE Transfer(0)),
             para, i + 1, message, msg, nets)

\* api_error(response_body): Err(errors), or Panic.
api_error(response_body) ==
    LET response == decode_body(response_body, {"status", "errors"}) IN
    IF response = Panic THEN Panic
    ELSE IF response.value.status # 1
    THEN [kind |-> "Err", value |-> response.value.errors]
    ELSE [kind |-> "Err", value |-> <<"general API error">>]

\* What push makes of the provider's answer api.
response_result(api) ==
    IF api.exec = "Ok"
    THEN IF api.code = 200 THEN Ok(<<>>)
         ELSE IF api.code \in 400..499 THEN api_error(api.body)
         ELSE [kind |-> "Err", value |-> << <<"API error", api.code>> >>]
    ELSE [kind |-> "Err", value |-> << <<"curl error", api.code>> >>]

NotBuilt == [result |-> Panic, notification |-> <<>>, uploads |-> <<>>,
             posted |-> FALSE, printed |-> FALSE]

\* push(token, user, message, parameters), the paste host answering nets
\* and the provider api: what it returns, the pairs it built, what it
\* uploaded, and whether it got to print and to post the request.
push(token, user, message, parameters, nets, api) ==
    LET msg == truncate(message) IN
    IF msg = Panic THEN NotBuilt
    ELSE LET st == apply_parameters(
                 [title |-> "po", debug |-> FALSE, panic |-> FALSE,
                  uploads |-> <<>>,
                  notification |-> << <<"token", token>>, <<"user", user>>,
                                      <<"message", msg.value>> >>],
                 parameters, 1, message, msg.value, nets)
         IN  IF st.panic
             THEN [NotBuilt EXCEPT !.notification = st.notification,
                                   !.uploads = st.uploads]
             ELSE [result |-> response_result(api),
                   notification |-> st.notification,
                   uploads |-> st.uploads,
                   posted |-> TRUE,
                   printed |-> st.debug]

\* ----------------------------------------------------- the dispatcher

MaxParams == 3

RECURSIVE SeqsUpTo(_, _)
SeqsUpTo(S, n) ==
    IF n = 0 THEN {<<>>}
    ELSE LET shorter == SeqsUpTo(S, n - 1)
         IN  shorter \cup {Append(q, x) : q \in shorter, x \in S}

ParameterValues ==
    { Priority(-2), Priority(0), Priority(2), Title("X"), Title("Y"),
      Device("phone"), Sound("bike"), URL("http://u"), URLTitle("U"),
      Gist, Debug }

GistUrl == "https://gist.github.com/1"

Created == Reply(201, Json([html_url |-> GistUrl]))
GistAnswers ==
    { Created,
      Reply(200, Json([html_url |-> GistUrl])),
      Reply(500, Json([message |-> "Server Error"])),
      Reply(201, NotJson),
      Reply(201, Json([message |-> "no url"])),
      Transfer(7) }

Rejected == Json([status |-> 0, errors |-> <<"invalid token">>])
ApiAnswers ==
    { Reply(200, Json([status |-> 1])),
      Reply(400, Rejected),
      Reply(400, Json([status |-> 1, errors |-> <<>>])),
      Reply(400, NotJson),
      Reply(499, NotUtf8),
      Reply(302, NotJson),
      Reply(500, NotJson),
      Transfer(6) }

Short == <<Run("a", 500)>>
Long == <<Run("a", MessageLimit + 1)>>
PushToken == Fill("-", TokenLen - 1) \o <<"Z">>
PushUser == Fill("a", TokenLen)
Messages ==
    { Short,
      <<Run("a", MessageLimit)>>,
      Long,
      <<Run("a", 2000)>>,
      <<Run("a", MessageLimit - 1), Run(EAcute, 1)>>,
      <<Run("a", MessageLimit - 2), Run(EAcute, 1), Run("a", 1)>>,
      <<Run(EAcute, 600)>> }

GistsOf(parameters) ==
    {i \in 1..Len(parameters) : parameters[i].kind = "Gist"}

\* push keeps nothing from one call to the next: a behaviour is one call.
CallPush(messages, lists, gistAnswers, apiAnswers) ==
    /\ op = "none"
    /\ \E message \in messages, parameters \in lists, api \in apiAnswers :
       \E nets \in [GistsOf(parameters) -> gistAnswers] :
        LET p == push(PushToken, PushUser, message, parameters, nets, api) IN
        /\ op' = "push"
        /\ args' = [message |-> message, parameters |-> parameters,
                    nets |-> nets, api |-> api]
        /\ result' = p.result
        /\ notification' = p.notification
        /\ uploads' = p.uploads
        /\ posted' = p.posted
        /\ printed' = p.printed
        /\ UNCHANGED <<file, fileBefore, written>>

\* Every order of up to MaxParams parameters, on a short and on a long
\* message.
NextPush ==
    CallPush({Short, Long},
             SeqsUpTo(ParameterValues, MaxParams),
             {Created, Reply(500, Json([message |-> "Server Error"])),
              Reply(201, NotJson)},
             {Reply(200, Json([status |-> 1])), Reply(400, Rejected)})

InitPush == InitConfig /\ file = Absent

SpecPush == InitPush /\ [][NextPush]_vars

\* ----------------------------------------------- the send functions

\* Option<&str>; NoMessage is the None of a message body.
None == [some |-> FALSE, value |-> ""]
NoMessage == [some |-> FALSE, value |-> <<>>]
Some(v) == [some |-> TRUE, value |-> v]

OptionalParameter(kind, option) ==
    IF option.some THEN <<[kind |-> kind, value |-> option.value]>> ELSE <<>>

\* The parameters send_with_url hands to push.
send_with_url_parameters(priority, title, device, sound, url, url_title) ==
    <<Priority(priority)>>
    \o OptionalParameter("Title", title)
    \o OptionalParameter("Device", device)
    \o OptionalParameter("Sound", sound)
    \o OptionalParameter("URL", url)
    \o OptionalParameter("URLTitle", url_title)

\* send is send_with_url without url and url_title.
send_parameters(priority, title, device, sound) ==
    send_with_url_parameters(priority, title, device, sound, None, None)

\* The parameters send_gist hands to push.
send_gist_parameters(priority, title, device, sound) ==
    <<Priority(priority)>>
    \o OptionalParameter("Title", title)
    \o OptionalParameter("Device", device)
    \o OptionalParameter("Sound", sound)
    \o <<Gist>>

\* send_basic hands push no parameters.
send_basic_parameters == <<>>

Priorities == {-2, 0, 2}
Option(S) == {None} \cup {Some(v) : v \in S}

\* A call of one of the send functions: what it hands to push.
call_parameters(call) ==
    CASE call.fn = "send_with_url" ->
            send_with_url_parameters(call.priority, call.title, call.device,
                                     call.sound, call.url, call.url_title)
      [] call.fn = "send" ->
            send_parameters(call.priority, call.title, call.device, call.sound)
      [] call.fn = "send_gist" ->
            send_gist_parameters(call.priority, call.title, call.device,
                                 call.sound)
      [] call.fn = "send_basic" -> send_basic_parameters

SendCalls ==
    [ fn : {"send_with_url"}, priority : Priorities, title : Option({"X"}),
      device : {None}, sound : {None}, url : Option({"http://u"}),
      url_title : Option({"U"}) ]
    \cup
    [ fn : {"send", "send_gist"}, priority : Priorities, title : Option({"X"}),
      device : Option({"phone"}), sound : Option({"bike"}), url : {None},
      url_title : {None} ]
    \cup
    [ fn : {"send_basic"}, priority : {0}, title : {None}, device : {None},
      sound : {None}, url : {None}, url_title : {None} ]

\* One call of send_with_url, send, send_gist or send_basic.
CallSend ==
    /\ op = "none"
    /\ \E call \in SendCalls, message \in {Short, Long},
          api \in {Reply(200, Json([status |-> 1])), Reply(400, Rejected)} :
       \E nets \in [GistsOf(call_parameters(call)) ->
                       {Created, Reply(500, NotJson)}] :
        LET p == push(PushToken, PushUser, message, call_parameters(call),
                      nets, api)
        IN  /\ op' = "send"
            /\ args' = [call |-> call, message |-> message, nets |-> nets,
                        api |-> api]
            /\ result' = p.result
            /\ notification' = p.notification
            /\ uploads' = p.uploads
            /\ posted' = p.posted
            /\ printed' = p.printed
            /\ UNCHANGED <<file, fileBefore, written>>

\* ------------------------------------------------------------ bin/po.rs

\* parse_parameters(args): the parameters the command line stands for.
parse_parameters(cli) ==
    (IF cli.flag_p # 0 THEN <<Priority(cli.flag_p)>> ELSE <<>>)
    \o OptionalParameter("Title", cli.flag_title)
    \o OptionalParameter("Device", cli.flag_device)
    \o OptionalParameter("Sound", cli.flag_sound)
    \o (IF cli.flag_always_gist THEN <<Gist>> ELSE <<>>)
    \o (IF cli.flag_debug THEN <<Debug>> ELSE <<>>)

\* The message main sends: the argument, or else all of standard input.
main_message(cli, stdin) ==
    IF cli.arg_message.some THEN cli.arg_message.value ELSE stdin

\* The parameters main hands to push.
main_parameters(cli, stdin) ==
    parse_parameters(cli)
    \o (IF cli.flag_gist /\ message_len(main_message(cli, stdin)) > MessageLimit
        THEN <<Gist>> ELSE <<>>)

\* setup(config, token, user): what it prints, and the file afterwards.
setup(f, token, user, io) ==
    LET w == write(token, user, f, io) IN
    [said |-> CASE w.result.kind = "Ok" -> "nothing"
                [] w.result.kind = "InvalidApiToken" -> "Invalid API token"
                [] w.result.kind = "InvalidUserKey" -> "Invalid user key"
                [] w.result.kind = "FileError" -> "Config write error",
     file |-> w.file]

Quiet(said, f) ==
    [NotBuilt EXCEPT !.result = [kind |-> "exit", said |-> said]]
        @@ [file |-> f]

\* main: one run of the program on a path holding f.  env has the file
\* system's say about a write and a read and the answers of the two hosts.
main(cli, stdin, f, env) ==
    IF cli.flag_setup
    THEN IF cli.arg_token = <<>> \/ cli.arg_user = <<>>
         THEN Quiet("setup instructions", f)
         ELSE LET done == setup(f, cli.arg_token, cli.arg_user, env.write)
              IN  Quiet(done.said, done.file)
    ELSE LET config == read(f, env.read) IN
         IF config = Panic THEN NotBuilt @@ [file |-> f]
         ELSE IF config.kind = "NoConfig" THEN Quiet("Please run po --setup", f)
         ELSE IF config.kind # "Ok" THEN Quiet("Config read error", f)
         ELSE LET sent == push(config.value[1], config.value[2],
                               main_message(cli, stdin),
                               main_parameters(cli, stdin), env.nets, env.api)
              IN  [sent EXCEPT !.result =
                       IF @ = Panic THEN Panic
                       ELSE [kind |-> "exit",
                             said |-> IF @.kind = "Ok" THEN "nothing" ELSE "po: errors",
                             push |-> @]]
                  @@ [file |-> f]

CommandLines ==
    [ arg_message : {NoMessage, Some(Short), Some(Long)},
      arg_token : {<<>>},
      arg_user : {<<>>},
      flag_p : Priorities,
      flag_title : Option({"X"}),
      flag_device : {None},
      flag_sound : Option({"bike"}),
      flag_setup : {FALSE},
      flag_gist : BOOLEAN,
      flag_always_gist : BOOLEAN,
      flag_debug : BOOLEAN ]
    \cup
    [ arg_message : {NoMessage},
      arg_token : {<<>>, PushToken, Fill("a", TokenLen - 1)},
      arg_user : {<<>>, PushUser, Fill("-", TokenLen)},
      flag_p : {0},
      flag_title : {None},
      flag_device : {None},
      flag_sound : {None},
      flag_setup : {TRUE},
      flag_gist : {FALSE},
      flag_always_gist : {FALSE},
      flag_debug : {FALSE} ]

Configured == Text(encode([token |-> PushToken, user |-> PushUser]))

\* One run of the program.  Each part of env has a say only where main
\* gets to ask it.
RunMain ==
    /\ op = "none"
    /\ \E cli \in CommandLines, stdin \in {Short, Long} :
       \E wio \in IF cli.flag_setup /\ valid_token(cli.arg_token)
                     /\ valid_token(cli.arg_user)
                  THEN WriteIo ELSE {"ok"},
          rio \in IF ~cli.flag_setup /\ file.exists THEN ReadIo ELSE {"ok"} :
       \E api \in IF ~cli.flag_setup /\ read(file, rio).kind = "Ok"
                  THEN {Reply(200, Json([status |-> 1])), Reply(400, Rejected)}
                  ELSE {Transfer(0)},
          nets \in IF ~cli.flag_setup /\ read(file, rio).kind = "Ok"
                   THEN [GistsOf(main_parameters(cli, stdin)) ->
                            {Created, Reply(500, NotJson)}]
                   ELSE {<<>>} :
        LET env == [write |-> wio, read |-> rio, nets |-> nets, api |-> api]
            m == main(cli, stdin, file, env)
        IN  /\ op' = "main"
            /\ args' = [cli |-> cli, stdin |-> stdin, env |-> env]
            /\ result' = m.result
            /\ notification' = m.notification
            /\ uploads' = m.uploads
            /\ posted' = m.posted
            /\ printed' = m.printed
            /\ fileBefore' = file
            /\ file' = m.file
            /\ UNCHANGED written

InitSend ==
    /\ file \in {Absent, Text(Garbage), Configured}
    /\ fileBefore = file
    /\ written = Nothing
    /\ op = "none"
    /\ args = [io |-> "none"]
    /\ result = [kind |-> "none"]
    /\ notification = <<>>
    /\ uploads = <<>>
    /\ posted = FALSE
    /\ printed = FALSE

\* The send functions and the command line, and push itself on a few
\* parameters in every order.
NextSend ==
    \/ CallPush({Short}, SeqsUpTo({Priority(-2), Priority(0), Priority(2),
                                   Title("X"), Gist}, MaxParams),
                {Created, Reply(500, NotJson)}, {Reply(200, Json([status |-> 1]))})
    \/ CallSend
    \/ RunMain

SpecSend == InitSend /\ [][NextSend]_vars

\* Every message and every answer, with at most one parameter.
NextWire ==
    CallPush(Messages, SeqsUpTo(ParameterValues, 1), GistAnswers, ApiAnswers)

SpecWire == InitPush /\ [][NextWire]_vars

\* ------------------------------------------------- claims, dispatcher

\* The values of the fields called key, in the order push added them.
Values(fields, key) ==
    LET at == SelectSeq(fields, LAMBDA f : f[1] = key)
    IN  [k \in 1..Len(at) |-> at[k][2]]

OfKind(parameters, kind) == SelectSeq(parameters, LAMBDA q : q.kind = kind)

Last(q) == q[Len(q)]

\* The paste host's answer makes the upload succeed.
Uploaded(net) ==
    /\ net.exec = "Ok"
    /\ net.code \in {200, 201}
    /\ net.body.utf8 /\ net.body.json
    /\ "html_url" \in DOMAIN net.body.fields

\* The provider's answer is a client error with a body {status, errors}.
Explained(api) ==
    /\ api.body.utf8 /\ api.body.json
    /\ {"status", "errors"} \subseteq DOMAIN api.body.fields

\* C4, as claimed: push turns every answer of the provider into a result:
\* 200 is Ok(()), 400-499 with {status, errors} and status # 1 is
\* Err(errors), 400-499 with a malformed body or status = 1 is a generic
\* one-element error list, any other status n is Err(["API error n"]), a
\* transport failure is a one-element error list; no answer makes it panic.
C4_ResponseAsResult ==
    op = "push" /\ posted =>
        /\ result # Panic
        /\ args.api.exec = "Err" =>
               result.kind = "Err" /\ Len(result.value) = 1
        /\ args.api.exec = "Ok" /\ args.api.code = 200 => result = Ok(<<>>)
        /\ args.api.exec = "Ok" /\ args.api.code \in 400..499 =>
               IF Explained(args.api) /\ args.api.body.fields.status # 1
               THEN result = [kind |-> "Err",
                              value |-> args.api.body.fields.errors]
               ELSE result.kind = "Err" /\ Len(result.value) = 1
        /\ args.api.exec = "Ok" /\ args.api.code \notin {200} \cup (400..499) =>
               result = [kind |-> "Err",
                         value |-> << <<"API error", args.api.code>> >>]

\* C5, as claimed: whichever way the paste upload fails (a status other
\* than 200/201, a transport failure, a 200/201 body that does not parse),
\* push adds neither url nor url_title, still posts the notification and
\* returns what the provider reports.  (Stated for messages within the
\* limit and calls without URL and URLTitle parameters.)
C5_UploadFailureNotFatal ==
    /\ op = "push"
    /\ message_len(args.message) <= MessageLimit
    /\ GistsOf(args.parameters) # {}
    /\ \A i \in GistsOf(args.parameters) : ~Uploaded(args.nets[i])
    /\ OfKind(args.parameters, "URL") = <<>>
    /\ OfKind(args.parameters, "URLTitle") = <<>>
    =>
    /\ posted
    /\ result = response_result(args.api)
    /\ Values(notification, "url") = <<>>
    /\ Values(notification, "url_title") = <<>>

\* The decimal numerals of the priorities of the model.
Decimal(p) ==
    CASE p = -2 -> <<"-", "2">> [] p = 0 -> <<"0">> [] p = 2 -> <<"2">>

DecimalsOf(priorities) ==
    [k \in 1..Len(priorities) |-> Decimal(priorities[k].value)]

Max(S) == CHOOSE i \in S : \A j \in S : j <= i

\* The title in force when the parameter at i is processed.
TitleBefore(parameters, i) ==
    LET titles == {j \in 1..(i - 1) : parameters[j].kind = "Title"}
    IN  IF titles = {} THEN "po" ELSE parameters[Max(titles)].value

\* The place of the k-th Gist in the parameters.
NthGist(parameters, k) ==
    CHOOSE i \in GistsOf(parameters) :
        Cardinality({j \in GistsOf(parameters) : j <= i}) = k

\* C7: the parameters are processed in order; the file name of the upload
\* made for a Gist is the text of the last Title before that Gist, or "po"
\* if there is none, whatever Title comes after it; and the upload is the
\* full message, untruncated.
C7_TitleOrdering ==
    op = "push" =>
        /\ Len(uploads) <= Cardinality(GistsOf(args.parameters))
        /\ posted => Len(uploads) = Cardinality(GistsOf(args.parameters))
        /\ \A k \in 1..Len(uploads) :
               uploads[k] =
                   [title |-> TitleBefore(args.parameters,
                                          NthGist(args.parameters, k)),
                    content |-> args.message]

\* C7's case: a Title before the Gist and another after it, with a message
\* over the limit.
C7_Witness ==
    /\ op = "push" /\ posted
    /\ args.parameters = <<Title("X"), Gist, Title("Y")>>
    /\ message_len(args.message) > MessageLimit
    /\ uploads = <<[title |-> "X", content |-> args.message]>>
    /\ Values(notification, "title") = <<"X", "Y">>

\* The longest prefix of whole characters of m within k bytes.
SafePrefix(m, k) ==
    bytes_to(m, Max({j \in 0..k : is_char_boundary(m, j)}))

\* C8, as claimed, with lengths read as Rust reads them, in bytes: the
\* wire message is the message itself when its length is at most 1024 and
\* else its first 1024 bytes, cut at a character boundary, and push does
\* not abort on the way; with or without a Gist parameter.
C8_Truncation ==
    op = "push" =>
        /\ notification # <<>>
        /\ Values(notification, "message") =
               << IF message_len(args.message) <= 1024 THEN args.message
                  ELSE SafePrefix(args.message, 1024) >>

\* C10, as claimed: when the parameters contain Gist and its upload
\* succeeds, the url and url_title in force in the request (the last of
\* each) are those of the gist, wherever URL and URLTitle stand.
C10_GistSupersedes ==
    /\ op = "push" /\ posted
    /\ \E i \in GistsOf(args.parameters) : Uploaded(args.nets[i])
    =>
    /\ Last(Values(notification, "url")) = GistUrl
    /\ Last(Values(notification, "url_title")) = GistUrlTitle

\* ------------------------------------------- claims, credential store

Invalid == {"InvalidApiToken", "InvalidUserKey"}

\* The file holds the pair: it is there and parses into exactly it.
Holds(f, pair) ==
    /\ f.exists
    /\ decode(f.text) = [ok |-> TRUE,
                         value |-> [token |-> pair[1], user |-> pair[2]]]

\* What write owes its arguments: the token is checked first, then the
\* user key, and a rejected write leaves the path as it was.
ValidationFirst ==
    op = "write" =>
        /\ ~valid_token(args.token) =>
               /\ result = Err("InvalidApiToken", args.token)
               /\ file = fileBefore
        /\ valid_token(args.token) /\ ~valid_token(args.user) =>
               /\ result = Err("InvalidUserKey", args.user)
               /\ file = fileBefore
        /\ valid_token(args.token) /\ valid_token(args.user) =>
               result.kind \notin Invalid

C2_RoundTrip ==
    op = "read" /\ written.any /\ written.intact =>
        /\ result.kind = "Ok" => result.value = written.pair
        /\ args.io = "ok" => result.kind = "Ok"
        /\ args.io # "ok" => result.kind \in {"NoConfig", "FileError"}

\* C2's case: a pair whose token needs escaping in JSON is read back.
C2_Witness ==
    /\ op = "read"
    /\ result.kind = "Ok"
    /\ result.value = written.pair
    /\ \E i \in 1..Len(result.value[1]) : result.value[1][i] = Quote
    /\ \E i \in 1..Len(result.value[2]) : result.value[2][i] = Backslash

\* C3, as claimed: read fails with NoConfig exactly when the file does not
\* exist, any other I/O failure is FileError, and content that does not
\* parse into {token, user} is reported as JsonError, never a panic.
C3_ReadErrors ==
    op = "read" =>
        /\ result.kind = "NoConfig" <=> ~fileBefore.exists
        /\ fileBefore.exists /\ args.io # "ok" => result.kind = "FileError"
        /\ fileBefore.exists /\ args.io = "ok" /\ ~decode(fileBefore.text).ok
               => result.kind = "JsonError"
        /\ result # Panic

\* The characters of the model in [A-Za-z0-9].
Alnum == {"a", "Z", "7", "t", "o", "k", "e", "n", "u", "s", "r", "h"}

HasAlnum(s) == \E i \in 1..Len(s) : s[i] \in Alnum

\* The length of s in UTF-8 bytes: EAcute takes two.
Utf8Bytes(s) == Len(s) + Cardinality({i \in 1..Len(s) : s[i] = EAcute})

\* What write returns when the rule holds of its token, of its user key.
Verdict(tokenOk, userOk) ==
    /\ result.kind = "InvalidApiToken" <=> ~tokenOk
    /\ result.kind = "InvalidUserKey" <=> tokenOk /\ ~userOk

RuleInChars(s) == Len(s) = 30 /\ HasAlnum(s)
RuleInBytes(s) == Utf8Bytes(s) = 30 /\ HasAlnum(s)

\* C9, as claimed: a string is valid exactly when its length is 30 (30
\* characters, any of the other 29 being anything) and it has at least one
\* character in [A-Za-z0-9].
C9_Original ==
    op = "write" => Verdict(RuleInChars(args.token), RuleInChars(args.user))

\* C9, amended: a string is valid exactly when its length in UTF-8 bytes
\* is 30 and it has at least one character in [A-Za-z0-9].
C9_TokenFormatRule ==
    op = "write" => Verdict(RuleInBytes(args.token), RuleInBytes(args.user))

\* C9's case: a token with one alphanumeric character among 30 is accepted.
C9_Witness ==
    /\ op = "write"
    /\ result.kind = "Ok"
    /\ Cardinality({i \in 1..Len(args.token) : args.token[i] \in Alnum}) = 1
    /\ Len(args.token) = 30

====
